---- MODULE Spec2Model ----
(***************************************************************************)
(* Hedwig push gateway: the notify endpoint (src/src/api.rs, matrix_push), *)
(* the per-device push functions (src/src/pusher.rs) and the request       *)
(* extractor (src/src/models.rs), as a state machine.                      *)
(*                                                                         *)
(* Strings that the code only tests by prefix and suffix (app ids) are     *)
(* sequences of string segments: "com.fox.data_message" is                 *)
(* <<"com.fox", ".data_message">>.  Durations are in milliseconds.  An      *)
(* Option<T> is a sequence of at most one T: <<>> is None, <<x>> Some(x).   *)
(***************************************************************************)
EXTENDS Integers, Sequences, FiniteSets, TLC

\* ------------------------------------------------------------------ bounds
\* Largest configured hedwig.push_max_retries explored (the setting is an i64).
MaxRetriesBound == 2
\* Devices named by the accepted requests of one behaviour, in all; no device
\* list is longer.
MaxDevices == 2
\* Number of requests received in one behaviour.
MaxRequests == 2
\* Number of request tasks that can exist at the same time.
MaxConcurrent == 2
\* Latest instant of the clock, in hundredths of a second since the start of
\* the process.
MaxTime == 2
\* Largest number of push_successful_jitter calls in one behaviour.
MaxRecords == 27

\* ------------------------------------------------------- program constants
\* Settings::DEFAULT_NOTIFICATION_REQUEST_BODY_SIZE_LIMIT
DEFAULT_NOTIFICATION_REQUEST_BODY_SIZE_LIMIT == 15000
\* Duration::from_millis(250), the first backoff of every device
InitialRetryTime == 250
\* HTTP status codes
StatusOk == 200
StatusBadRequest == 400
StatusInternalServerError == 500
\* Jitter::push_successful_jitter: the history keeps the last 25 instants
JitterCapacity == 25
\* Jitter::get_jitter_delay: below 4 samples the fixed frequency is used
MinSamples == 4
\* Jitter::jitter: 1 / a = 2 / (2 - sqrt 2) = 3.414..., in thousandths
InvAMilli == 3414

\* ------------------------------------------------------------------ inputs
\* settings.hedwig.app_id
app_id == <<"com.fox">>
\* the legacy suffix tested by ends_with(".data_message")
DataMessageSuffix == <<".data_message">>

\* hedwig.push_max_retries is an i64 that Settings::load never validates.
RetrySettings == {-1} \cup (0..MaxRetriesBound)

\* The devices a request may name: a passing and a failing app-id check on
\* either routing path, several device_type labels, and push keys shared
\* between devices.  `data` is the keys of Device.data.data (a HashMap, all
\* keys of the device's data but data_message) in the order the map iterates.
DevGeneric ==
    [app_id |-> <<"com.fox">>, pushkey |-> "k1",
     data_message |-> "None", use_direct_apns |-> "None", data |-> <<"format">>]
DevIosApns ==
    [app_id |-> <<"com.fox">>, pushkey |-> "k1",
     data_message |-> "ios", use_direct_apns |-> "Some(true)", data |-> <<"format">>]
DevWrongApp ==
    [app_id |-> <<"com.paw", ".data_message">>, pushkey |-> "k2",
     data_message |-> "None", use_direct_apns |-> "Some(false)", data |-> <<"format">>]
DevWrongAppApns ==
    [app_id |-> <<"com.paw">>, pushkey |-> "k2",
     data_message |-> "android", use_direct_apns |-> "Some(true)", data |-> <<"format">>]

DeviceSet == {DevGeneric, DevIosApns, DevWrongApp, DevWrongAppApns}

DeviceLists == UNION {[1..n -> DeviceSet] : n \in 0..MaxDevices}

\* tests/pusher.rs, test_message(clearing): the fields of the Notification
\* other than the devices (the key "event-id" of the test is not a field of
\* Notification, so event_id is None).
test_message(clearing) ==
    IF clearing
    THEN [event_id |-> <<>>, room_id |-> <<>>, type |-> <<>>,
          counts |-> <<[unread |-> <<0>>]>>, ciphertext |-> <<>>]
    ELSE [event_id |-> <<>>, room_id |-> <<"owo">>, type |-> <<>>,
          counts |-> <<[unread |-> <<1337>>]>>, ciphertext |-> <<>>]

\* The notification of the requests of the server's specifications.
NotificationSet == {test_message(FALSE)}

NoNotification ==
    [event_id |-> <<>>, room_id |-> <<>>, type |-> <<>>, counts |-> <<>>,
     ciphertext |-> <<>>]

\* Request bodies: the byte length, whether the bytes parse as a
\* NotificationRequest, and the notification and device list they carry.
BodyLengths ==
    {DEFAULT_NOTIFICATION_REQUEST_BODY_SIZE_LIMIT,
     DEFAULT_NOTIFICATION_REQUEST_BODY_SIZE_LIMIT + 1}

Bodies ==
    [len : BodyLengths, json_ok : {TRUE}, notification : NotificationSet,
     devices : DeviceLists]
        \cup [len : BodyLengths, json_ok : {FALSE}, notification : {NoNotification},
              devices : {<<>>}]

\* tests/pusher.rs, setup_server: the title and body templates (the title
\* holds the placeholder <count>) and the apns-priority header of the settings.
TestSettings ==
    [notification_title |-> <<"fox ", "<count>", " fox">>,
     notification_body |-> <<"read the notification pls :c">>,
     apns_priority |-> <<"5">>]

\* The attribute sets counters.notifications is read under: none, or a
\* notification_type.
NotificationLabels ==
    {<<>>} \cup {<<t>> : t \in {"m.room.message", "m.room.encrypted",
                               "clearing", "data", "notification"}}

\* What one call of a sender does: return Ok, return Err, or panic.
SendResults == {"ok", "err", "panic"}

DeviceTypes == {"AndroidLegacy", "None", "Android", "Ios"}

\* The requests in flight at one time, each a task running matrix_push.
Requests == 1..MaxConcurrent

\* Jitter::new(max_jitter): the ceilings explored, in milliseconds: none, and
\* one that lies below the delay of the fixed frequency and of a few samples
\* and above the delay of many samples, so that both the ceiling and the
\* frequency set the bound.
MaxJitters == {0, 3}

\* The fixed frequency 0.25/s of get_jitter_delay, as <<samples, hundredths of
\* a second>>.
BootstrapFreq == <<1, 400>>

\* Instants of the clock, in hundredths of a second.
Instants == 0..MaxTime

\* ------------------------------------------------------------------- state
VARIABLES
    max_retries,      \* settings.hedwig.push_max_retries
    settings,         \* settings.hedwig: the text templates and the APNS headers
    served,           \* requests received so far
    budget,           \* devices named by the requests accepted so far
    pc,               \* per request: idle, loop, lock, send, sleep, finish, done
    body,             \* per request: the request's body
    devices,          \* per request: notification.devices of the extracted Notification
    idx,              \* per request: position of `dev` in notification.devices (1-based)
    attempt,          \* per request: matrix_push's attempt
    retry_time,       \* per request: matrix_push's retry_time (ms)
    rejected,         \* per request: matrix_push's rejected
    response,         \* per request: the HTTP response, once there is one
    fcm_lock,         \* the tokio Mutex around the FcmSender: its holder, or 0
    successful_pushes,\* counters.successful_pushes, by device_type
    failed_pushes,    \* counters.failed_pushes, by device_type
    notifications,    \* counters.notifications
    devices_total,    \* counters.devices
    dev,              \* per request and device: what the handler did for it (observation)
    obs,              \* per request: what the handler did (observation)
    caught_panics,    \* panics that CatchPanicLayer has turned into a response
    past_jitters,     \* Jitter::past_jitters: the heap's instants, oldest first
    max_jitter,       \* Jitter::max_jitter (ms)
    now,              \* Instant::now() (cs)
    recorded,         \* every instant given to push_successful_jitter, oldest first (observation)
    jitter_delay,     \* what the last get_jitter_delay returned: <<ms>>, or <<>>
    rw_readers,       \* the tasks inside get_jitter_delay, holding a read guard of the Jitter
    rw_writers        \* the tasks inside push_successful_jitter, holding a write guard

vars ==
    <<max_retries, settings, served, budget, pc, body, devices, idx, attempt, retry_time,
      rejected, response, fcm_lock, successful_pushes, failed_pushes, notifications,
      devices_total, dev, obs, caught_panics,
      past_jitters, max_jitter, now, recorded, jitter_delay, rw_readers, rw_writers>>

\* The Jitter object, its clock and its lock.
jitter_vars ==
    <<past_jitters, max_jitter, now, recorded, jitter_delay, rw_readers, rw_writers>>

\* ------------------------------------------------------------ pure helpers
StartsWith(s, p) == Len(p) <= Len(s) /\ SubSeq(s, 1, Len(p)) = p

EndsWith(s, p) == Len(p) <= Len(s) /\ SubSeq(s, Len(s) - Len(p) + 1, Len(s)) = p

\* The legacy suffix ignored: only the declared kind counts.
data_message_type_DeclaredOnly(d) ==
    IF d.data_message = "android" THEN "Android"
    ELSE IF d.data_message = "ios" THEN "Ios"
    ELSE "None"

\* Device::data_message_type
data_message_type(d) ==
    IF EndsWith(d.app_id, DataMessageSuffix) THEN "Android"
    ELSE IF d.data_message = "android" THEN "Android"
    ELSE IF d.data_message = "ios" THEN "Ios"
    ELSE "None"

\* matrix_push: device_type, the label of the push counters
device_type(d) ==
    IF EndsWith(d.app_id, DataMessageSuffix) THEN "AndroidLegacy"
    ELSE data_message_type(d)

\* Any declared preference, Some(false) too, sends the device to APNS.
UsesApns_AnyPreference(d) == d.use_direct_apns # "None"

\* matrix_push: match dev.use_direct_apns { Some(true) => apns, _ => fcm }
UsesApns(d) == d.use_direct_apns = "Some(true)"

\* push_notification_fcm: the message body built by `match device.data_message_type()`
FcmShape(d) ==
    CASE data_message_type(d) = "Android" -> "AndroidData"
      [] data_message_type(d) = "Ios" -> "IosData"
      [] OTHER -> "Generic"

\* The shape decides first: only a device of the generic shape is sent to APNS.
Route_ShapeFirst(d) ==
    IF FcmShape(d) = "Generic" /\ UsesApns(d)
    THEN [sender |-> "apns", shape |-> "ApnsNative"]
    ELSE [sender |-> "fcm", shape |-> FcmShape(d)]

\* matrix_push and the push functions: the sender a device is sent through and
\* the payload built for it.  push_notification_apns builds the native alert
\* payload whatever the device's data_message_type.
Route(d) ==
    IF UsesApns(d)
    THEN [sender |-> "apns", shape |-> "ApnsNative"]
    ELSE [sender |-> "fcm", shape |-> FcmShape(d)]

\* u16::to_string
Digits == <<"0", "1", "2", "3", "4", "5", "6", "7", "8", "9">>

RECURSIVE to_string(_)
to_string(n) ==
    IF n < 10 THEN Digits[n + 1] ELSE to_string(n \div 10) \o Digits[(n % 10) + 1]

\* The string made of the segments of a template.
RECURSIVE Concat(_)
Concat(segs) == IF segs = <<>> THEN "" ELSE Head(segs) \o Concat(Tail(segs))

\* template.replace("<count>", &count.to_string())
ReplaceCount(template, count) ==
    Concat([i \in DOMAIN template |->
               IF template[i] = "<count>" THEN to_string(count) ELSE template[i]])

\* Notification::from_request: the Notification of the body, its device list
\* included.
Notification(b) ==
    [event_id |-> b.notification.event_id, room_id |-> b.notification.room_id,
     type |-> b.notification.type, counts |-> b.notification.counts,
     ciphertext |-> b.notification.ciphertext, devices |-> b.devices]

\* notification.counts.as_ref().and_then(|c| c.unread).unwrap_or_default()
unread_count(n) ==
    IF n.counts = <<>> THEN 0
    ELSE IF n.counts[1].unread = <<>> THEN 0
    ELSE n.counts[1].unread[1]

\* The data block as a copy of the notification, its whole device list kept.
NotificationData_AllDevices(n, d) ==
    [event_id |-> n.event_id, room_id |-> n.room_id, type |-> n.type,
     counts |-> n.counts, ciphertext |-> n.ciphertext, devices |-> n.devices]

\* Notification::data(device): the data block, with the one device it is for
\* in place of the notification's devices; a None field is left out.
NotificationData(n, d) ==
    [event_id |-> n.event_id, room_id |-> n.room_id, type |-> n.type,
     counts |-> n.counts, ciphertext |-> n.ciphertext, devices |-> <<d>>]

\* push_notification_fcm: fcm_notification, the visible title and body
fcm_notification(n, s) ==
    [title |-> ReplaceCount(s.notification_title, unread_count(n)),
     body |-> ReplaceCount(s.notification_body, unread_count(n))]

\* push_notification_fcm: the `aps` payload and the headers of the ApnsConfig
ios_config(n, s) ==
    [apns_priority |-> s.apns_priority, badge |-> unread_count(n)]

\* push_notification_fcm: the MessageBody given to the sender.  `notification`
\* is the visible block, `android` the AndroidConfig (with its
\* AndroidNotification of channel, icon, sound and tag, which holds no title
\* and no body), `apns` the ApnsConfig.
MessageBody(n, d, s) ==
    CASE data_message_type(d) = "Android" ->
             [sender |-> "fcm", token |-> d.pushkey,
              notification |-> <<>>,
              data |-> <<NotificationData(n, d)>>,
              android |-> <<[notification |-> FALSE]>>,
              apns |-> <<>>]
      [] data_message_type(d) = "None" ->
             [sender |-> "fcm", token |-> d.pushkey,
              notification |-> IF n.room_id # <<>> THEN <<fcm_notification(n, s)>> ELSE <<>>,
              data |-> <<>>,
              android |-> <<[notification |-> TRUE]>>,
              apns |-> <<ios_config(n, s)>>]
      [] data_message_type(d) = "Ios" ->
             [sender |-> "fcm", token |-> d.pushkey,
              notification |-> IF n.room_id # <<>> THEN <<fcm_notification(n, s)>> ELSE <<>>,
              data |-> <<NotificationData(n, d)>>,
              android |-> <<>>,
              apns |-> <<ios_config(n, s)>>]

\* push_notification_apns: the a2 payload given to the sender.  The builder
\* sets title, body and badge; NotificationOptions names the topic and the
\* push type and leaves apns_priority at its default, None.
ApnsPayload(n, d, s) ==
    [sender |-> "apns", token |-> d.pushkey,
     notification |-> <<fcm_notification(n, s)>>,
     data |-> <<>>,
     android |-> <<>>,
     apns |-> <<[apns_priority |-> <<>>, badge |-> unread_count(n)]>>]

\* A retry that falls back to the other builder: after a failure the payload
\* is built for the sender the first attempt did not use.
Payload_OtherBuilderOnRetry(n, d, s) ==
    LET retry == \E r \in Requests : pc[r] = "loop" /\ attempt[r] > 0
    IN  IF (Route(d).sender = "apns") # retry
        THEN ApnsPayload(n, d, s) ELSE MessageBody(n, d, s)

\* matrix_push and the push functions: the payload built for a device
Payload(n, d, s) ==
    IF Route(d).sender = "apns" THEN ApnsPayload(n, d, s) ELSE MessageBody(n, d, s)

\* The app-id check left out.
AppIdAccepted_NoCheck(d) == TRUE

\* push_notification_fcm / push_notification_apns: the app-id check
AppIdAccepted(d) == StartsWith(d.app_id, app_id)

\* The extractor without the route's body limit.
BodyAccepted_NoLimit(b) == b.json_ok

\* impl FromRequest for Notification: Json::from_request under the route's
\* DefaultBodyLimit; any rejection becomes HedwigError{BadJson}.
BodyAccepted(b) ==
    b.len <= DEFAULT_NOTIFICATION_REQUEST_BODY_SIZE_LIMIT /\ b.json_ok

\* The comparison off by one: gives up one attempt early.
RetriesExhausted_Early(a) == a >= max_retries

\* The comparison off by one the other way: one attempt too many.
RetriesExhausted_Late(a) == a > max_retries + 1

\* matrix_push: `attempt > settings.hedwig.fcm_push_max_retries`, after attempt += 1
RetriesExhausted(a) == a > max_retries

\* A push key is recorded once, however many devices carry it.
PushRejected_Dedup(rej, d) ==
    IF \E j \in 1..Len(rej) : rej[j] = d.pushkey THEN rej ELSE Append(rej, d.pushkey)

\* The newest rejection is put first.
PushRejected_Front(rej, d) == <<d.pushkey>> \o rej

\* matrix_push: rejected.push(dev.pushkey.clone())
PushRejected(rej, d) == Append(rej, d.pushkey)

\* The failure counter moved out of the give-up branch: one per failed attempt.
FailedPushesAdd_EveryFailure(a) == 1

\* matrix_push: failed_pushes.add(1, ..) happens only in the give-up branch
FailedPushesAdd(a) == IF RetriesExhausted(a) THEN 1 ELSE 0

\* A request whose devices were all rejected is answered with an error.
PushGatewayResponse_ErrorWhenAllFail(rej, n) ==
    IF n > 0 /\ Len(rej) = n
    THEN [status |-> StatusInternalServerError, kind |-> "error", errcode |-> "UNKNOWN",
          rejected |-> <<>>]
    ELSE [status |-> StatusOk, kind |-> "rejected", errcode |-> "", rejected |-> rej]

\* matrix_push: Json(PushGatewayResponse { rejected }), answered with 200
PushGatewayResponse(rej, n) ==
    [status |-> StatusOk, kind |-> "rejected", errcode |-> "", rejected |-> rej]

\* HedwigError::into_response: 400 with the error and its errcode
HedwigErrorResponse ==
    [status |-> StatusBadRequest, kind |-> "error", errcode |-> "BAD_JSON",
     rejected |-> <<>>]

\* No panic layer: the task dies and the connection is closed with no response.
PanicResponse_ConnectionClosed ==
    [status |-> 0, kind |-> "panic", errcode |-> "", rejected |-> <<>>]

\* CatchPanicLayer: a panic of the handler becomes a 500
PanicResponse ==
    [status |-> StatusInternalServerError, kind |-> "panic", errcode |-> "",
     rejected |-> <<>>]

NoResponse == [status |-> 0, kind |-> "none", errcode |-> "", rejected |-> <<>>]

NoBody ==
    [len |-> 0, json_ok |-> FALSE, notification |-> NoNotification, devices |-> <<>>]

\* What the handler has done for one device so far.
FreshDev ==
    [state |-> "Pending",  \* Pending, Attempting, Retrying, Succeeded, Rejected
     calls |-> 0,          \* calls of push_notification_fcm / _apns
     fcm_sends |-> 0,      \* FcmSender::send invocations
     apns_sends |-> 0,     \* APNSSender::send invocations
     fails |-> 0,          \* sender invocations that returned Err
     sleeps |-> <<>>,      \* the backoff sleeps taken, in order
     succ_inc |-> 0,       \* successful_pushes.add calls
     fail_inc |-> 0,       \* failed_pushes.add calls
     rej |-> 0,            \* rejected.push calls
     shape |-> "none",     \* the shape of the payload built by the last call
     payloads |-> <<>>]    \* the payloads built by the calls of a push function, in order

\* What is recorded about one request: the counters when it arrived, and the
\* device (if any) whose send panicked.
Arrival ==
    [faulted |-> 0,
     jitter_delays |-> 0,   \* get_jitter_delay calls made for the request
     recorded |-> Len(recorded),
     successful_pushes |-> successful_pushes, failed_pushes |-> failed_pushes,
     notifications |-> notifications, devices_total |-> devices_total]

NoObs ==
    [faulted |-> 0, jitter_delays |-> 0, recorded |-> 0,
     successful_pushes |-> [t \in DeviceTypes |-> 0],
     failed_pushes |-> [t \in DeviceTypes |-> 0],
     notifications |-> [l \in NotificationLabels |-> 0], devices_total |-> 0]

\* ----------------------------------------------------------------- actions
\* Jitter::new(max_jitter), at the start of the clock.
JitterNew(mj) ==
    /\ past_jitters = <<>>
    /\ max_jitter = mj
    /\ now = 0
    /\ recorded = <<>>
    /\ jitter_delay = <<>>
    /\ rw_readers = {}
    /\ rw_writers = {}

\* AppState::new and Metrics::new: no request yet, the counters at zero.
AppStateNew ==
    /\ served = 0
    /\ budget = 0
    /\ pc = [r \in Requests |-> "idle"]
    /\ body = [r \in Requests |-> NoBody]
    /\ devices = [r \in Requests |-> <<>>]
    /\ idx = [r \in Requests |-> 0]
    /\ attempt = [r \in Requests |-> 0]
    /\ retry_time = [r \in Requests |-> InitialRetryTime]
    /\ rejected = [r \in Requests |-> <<>>]
    /\ response = [r \in Requests |-> NoResponse]
    /\ fcm_lock = 0
    /\ successful_pushes = [t \in DeviceTypes |-> 0]
    /\ failed_pushes = [t \in DeviceTypes |-> 0]
    /\ notifications = [l \in NotificationLabels |-> 0]
    /\ devices_total = 0
    /\ dev = [r \in Requests |-> <<>>]
    /\ obs = [r \in Requests |-> NoObs]
    /\ caught_panics = 0

\* The server of api.rs: AppState holds no Jitter.
Init ==
    /\ max_retries \in RetrySettings
    /\ settings = TestSettings
    /\ AppStateNew
    /\ JitterNew(0)

\* The device list walked from its end: `for dev in notification.devices.iter().rev()`.
ForNext_Backwards(r, n) ==
    LET next == IF pc[r] = "idle" THEN n ELSE idx[r] - 1
    IN  /\ idx' = [idx EXCEPT ![r] = next]
        /\ attempt' = [attempt EXCEPT ![r] = 0]
        /\ retry_time' = [retry_time EXCEPT ![r] = InitialRetryTime]
        /\ pc' = [pc EXCEPT ![r] = IF next >= 1 THEN "loop" ELSE "finish"]

\* The loop without its `break`: a device that succeeded or was rejected is
\* attempted once more before the for loop moves on.
ForNext_NoBreak(r, n) ==
    /\ idx' = [idx EXCEPT ![r] = IF @ = 0 \/ dev[r][@].calls > 1 THEN @ + 1 ELSE @]
    /\ attempt' = [attempt EXCEPT ![r] = 0]
    /\ retry_time' = [retry_time EXCEPT ![r] = InitialRetryTime]
    /\ pc' = [pc EXCEPT ![r] = IF idx'[r] <= n THEN "loop" ELSE "finish"]

\* retry_time and attempt declared outside the for loop: the next device
\* starts with what the device before it left.
ForNext_CarriesBackoff(r, n) ==
    /\ idx' = [idx EXCEPT ![r] = @ + 1]
    /\ attempt' = attempt
    /\ retry_time' = retry_time
    /\ pc' = [pc EXCEPT ![r] = IF idx[r] < n THEN "loop" ELSE "finish"]

\* matrix_push, `for dev in &notification.devices`: the loop takes the device
\* after idx[r] with a fresh retry_time and attempt, or ends.
ForNext(r, n) ==
    /\ idx' = [idx EXCEPT ![r] = @ + 1]
    /\ attempt' = [attempt EXCEPT ![r] = 0]
    /\ retry_time' = [retry_time EXCEPT ![r] = InitialRetryTime]
    /\ pc' = [pc EXCEPT ![r] = IF idx[r] < n THEN "loop" ELSE "finish"]

\* A request arrives: Notification::from_request extracts the body, and on
\* success matrix_push starts (rejected = Vec::new(), the for loop is entered).
from_request(r, b) ==
    /\ pc[r] = "idle"
    /\ served < MaxRequests
    /\ BodyAccepted(b) => budget + Len(b.devices) <= MaxDevices
    /\ served' = served + 1
    /\ budget' = IF BodyAccepted(b) THEN budget + Len(b.devices) ELSE budget
    /\ body' = [body EXCEPT ![r] = b]
    /\ obs' = [obs EXCEPT ![r] = Arrival]
    /\ rejected' = [rejected EXCEPT ![r] = <<>>]
    /\ IF BodyAccepted(b)
       THEN /\ devices' = [devices EXCEPT ![r] = b.devices]
            /\ dev' = [dev EXCEPT ![r] = [i \in 1..Len(b.devices) |-> FreshDev]]
            /\ response' = [response EXCEPT ![r] = NoResponse]
            /\ ForNext(r, Len(b.devices))
       ELSE /\ devices' = [devices EXCEPT ![r] = <<>>]
            /\ dev' = [dev EXCEPT ![r] = <<>>]
            /\ response' = [response EXCEPT ![r] = HedwigErrorResponse]
            /\ pc' = [pc EXCEPT ![r] = "done"]
            /\ UNCHANGED <<idx, attempt, retry_time>>
    /\ UNCHANGED <<max_retries, settings, jitter_vars, caught_panics, fcm_lock, successful_pushes, failed_pushes,
                   notifications, devices_total>>

\* matrix_push, the Err branch of one loop iteration; dv is the device's record
\* up to the failure.
Failure(r, dv) ==
    LET d == devices[r][idx[r]]
        a == attempt[r] + 1
        t == device_type(d)
    IN  /\ failed_pushes' = [failed_pushes EXCEPT ![t] = @ + FailedPushesAdd(a)]
        /\ IF RetriesExhausted(a)
           THEN /\ rejected' = [rejected EXCEPT ![r] = PushRejected(@, d)]
                /\ dev' = [dev EXCEPT ![r][idx[r]] =
                              [dv EXCEPT !.state = "Rejected", !.rej = @ + 1,
                                         !.fail_inc = @ + FailedPushesAdd(a)]]
                /\ ForNext(r, Len(devices[r]))
           ELSE /\ attempt' = [attempt EXCEPT ![r] = a]
                /\ dev' = [dev EXCEPT ![r][idx[r]] =
                              [dv EXCEPT !.state = "Retrying",
                                         !.sleeps = Append(@, retry_time[r]),
                                         !.fail_inc = @ + FailedPushesAdd(a)]]
                /\ pc' = [pc EXCEPT ![r] = "sleep"]
                /\ UNCHANGED <<rejected, idx, retry_time>>

\* matrix_push calls push_notification_apns or push_notification_fcm for the
\* current device: the app-id check, the payload, then the sender (APNS: the
\* send call; FCM: the lock of the sender).
push_notification(r) ==
    /\ pc[r] = "loop"
    /\ LET d == devices[r][idx[r]]
           dv == [dev[r][idx[r]] EXCEPT !.state = "Attempting", !.calls = @ + 1]
           built == Payload(Notification(body[r]), d, settings)
       IN  IF ~AppIdAccepted(d)
           THEN Failure(r, dv)
           ELSE /\ IF Route(d).sender = "apns"
                   THEN /\ pc' = [pc EXCEPT ![r] = "send"]
                        /\ dev' = [dev EXCEPT ![r][idx[r]] =
                                      [dv EXCEPT !.apns_sends = @ + 1,
                                                 !.shape = Route(d).shape,
                                                 !.payloads = Append(@, built)]]
                   ELSE /\ pc' = [pc EXCEPT ![r] = "lock"]
                        /\ dev' = [dev EXCEPT ![r][idx[r]] =
                                      [dv EXCEPT !.shape = Route(d).shape,
                                                 !.payloads = Append(@, built)]]
                /\ UNCHANGED <<failed_pushes, rejected, idx, attempt, retry_time>>
    /\ UNCHANGED <<max_retries, settings, jitter_vars, caught_panics, served, budget, body, devices, response, fcm_lock,
                   successful_pushes, notifications, devices_total, obs>>

\* The sender shared without a Mutex: lock() never waits.
FcmLockFree_NoMutex == TRUE

\* tokio::sync::Mutex::lock completes only while no guard exists
FcmLockFree == fcm_lock = 0

\* push_notification_fcm: sender.lock().await completes and send is called.
fcm_lock_acquired(r) ==
    /\ pc[r] = "lock"
    /\ FcmLockFree
    /\ fcm_lock' = r
    /\ pc' = [pc EXCEPT ![r] = "send"]
    /\ dev' = [dev EXCEPT ![r][idx[r]].fcm_sends = @ + 1]
    /\ UNCHANGED <<max_retries, settings, jitter_vars, caught_panics, served, budget, body, devices, idx, attempt, retry_time,
                   rejected, response, successful_pushes, failed_pushes,
                   notifications, devices_total, obs>>

\* The guard bound to a variable that lives until the device is terminal: it
\* is kept over a failed send that will be retried, and so over the sleep.
GuardDropped_AfterRetries(r, res) ==
    IF fcm_lock = r /\ ~(res = "err" /\ ~RetriesExhausted(attempt[r] + 1))
    THEN 0 ELSE fcm_lock

\* The guard dropped on the Ok path only: the early return of `?` leaves the
\* lock taken.
GuardDropped_NotOnErr(r, res) ==
    IF fcm_lock = r /\ res # "err" THEN 0 ELSE fcm_lock

\* A lock whose guard is lost with the task that held it: it is released when
\* the send call returns, and stays taken when the call unwinds or the
\* request's future is dropped.
GuardDropped_OnReturnOnly(r, res) ==
    IF fcm_lock = r /\ res \in {"ok", "err"} THEN 0 ELSE fcm_lock

\* push_notification_fcm, `sender.lock().await.send(body).await?`: the
\* MutexGuard is a temporary of the statement, dropped when the send call
\* has returned Ok or Err, or unwinds.  The lock after that.
GuardDropped(r, res) == IF fcm_lock = r THEN 0 ELSE fcm_lock

\* The sender's send call ends: Ok, Err or a panic.  The MutexGuard is a
\* temporary of the send statement and is dropped in each case.
send_returns(r, res) ==
    /\ pc[r] = "send"
    /\ fcm_lock' = GuardDropped(r, res)
    /\ LET d == devices[r][idx[r]]
           t == device_type(d)
       IN  CASE res = "ok" ->
                  /\ successful_pushes' = [successful_pushes EXCEPT ![t] = @ + 1]
                  /\ dev' = [dev EXCEPT ![r][idx[r]] =
                                [@ EXCEPT !.state = "Succeeded", !.succ_inc = @ + 1]]
                  /\ ForNext(r, Len(devices[r]))
                  /\ UNCHANGED <<failed_pushes, rejected, response, obs>>
             [] res = "err" ->
                  /\ Failure(r, [dev[r][idx[r]] EXCEPT !.fails = @ + 1])
                  /\ UNCHANGED <<successful_pushes, response, obs>>
             [] res = "panic" ->
                  /\ response' = [response EXCEPT ![r] = PanicResponse]
                  /\ obs' = [obs EXCEPT ![r].faulted = idx[r]]
                  /\ pc' = [pc EXCEPT ![r] = "done"]
                  /\ UNCHANGED <<successful_pushes, failed_pushes, rejected, dev,
                                 idx, attempt, retry_time>>
    /\ caught_panics' = IF res = "panic" THEN caught_panics + 1 ELSE caught_panics
    /\ UNCHANGED <<max_retries, settings, jitter_vars, served, budget, body, devices, notifications, devices_total>>

\* tokio::time::sleep(retry_time) ends; retry_time *= 2; next loop iteration.
sleep_ends(r) ==
    /\ pc[r] = "sleep"
    /\ retry_time' = [retry_time EXCEPT ![r] = @ * 2]
    /\ pc' = [pc EXCEPT ![r] = "loop"]
    /\ dev' = [dev EXCEPT ![r][idx[r]].state = "Attempting"]
    /\ UNCHANGED <<max_retries, settings, jitter_vars, caught_panics, served, budget, body, devices, idx, attempt, rejected,
                   response, fcm_lock, successful_pushes, failed_pushes,
                   notifications, devices_total, obs>>

\* matrix_push: the attributes of the notification counter, the
\* notification's type if it has one
notification_type(n) == n.type

\* The notification counted once per device that was not rejected.
Delivered_PerDevice(rej, n) == n - Len(rej)

\* matrix_push: if rejected.len() < notification.devices.len() { add(1, ..) }
Delivered(rej, n) == IF Len(rej) < n THEN 1 ELSE 0

\* Only the devices that were not rejected are counted.
DevicesAdd_NotRejected(rej, n) == n - Len(rej)

\* matrix_push: counters.devices.add(notification.devices.len() as u64, &[])
DevicesAdd(rej, n) == n

\* matrix_push after the for loop: the notification counter, the device
\* counter and the response.
finish(r) ==
    /\ pc[r] = "finish"
    /\ LET n == Len(devices[r])
           delivered == Delivered(rejected[r], n)
           label == notification_type(body[r].notification)
       IN  /\ notifications' = [notifications EXCEPT ![label] = @ + delivered]
           /\ devices_total' = devices_total + DevicesAdd(rejected[r], n)
           /\ response' = [response EXCEPT ![r] = PushGatewayResponse(rejected[r], n)]
    /\ pc' = [pc EXCEPT ![r] = "done"]
    /\ UNCHANGED <<max_retries, settings, jitter_vars, caught_panics, served, budget, body, devices, idx, attempt, retry_time,
                   rejected, fcm_lock, successful_pushes, failed_pushes, dev, obs>>

\* The response has been written; the request's task and its locals are gone.
close(r) ==
    /\ pc[r] = "done"
    /\ pc' = [pc EXCEPT ![r] = "idle"]
    /\ body' = [body EXCEPT ![r] = NoBody]
    /\ devices' = [devices EXCEPT ![r] = <<>>]
    /\ idx' = [idx EXCEPT ![r] = 0]
    /\ attempt' = [attempt EXCEPT ![r] = 0]
    /\ retry_time' = [retry_time EXCEPT ![r] = InitialRetryTime]
    /\ rejected' = [rejected EXCEPT ![r] = <<>>]
    /\ response' = [response EXCEPT ![r] = NoResponse]
    /\ dev' = [dev EXCEPT ![r] = <<>>]
    /\ obs' = [obs EXCEPT ![r] = NoObs]
    /\ UNCHANGED <<max_retries, settings, jitter_vars, caught_panics, served, budget, fcm_lock, successful_pushes, failed_pushes,
                   notifications, devices_total>>

\* The connection of the request is dropped while matrix_push waits (for the
\* lock, for a send call or in a backoff sleep): the future of the handler is
\* dropped at that await, with its locals and with the guard of the lock if
\* the send statement holds one; no response is written, and nothing more is
\* done for the request.
cancel(r) ==
    /\ pc[r] \in {"lock", "send", "sleep"}
    /\ fcm_lock' = GuardDropped(r, "cancel")
    /\ obs' = [obs EXCEPT ![r].faulted = idx[r]]
    /\ pc' = [pc EXCEPT ![r] = "done"]
    /\ UNCHANGED <<max_retries, settings, jitter_vars, caught_panics, served, budget, body, devices, idx,
                   attempt, retry_time, rejected, response, successful_pushes,
                   failed_pushes, notifications, devices_total, dev>>

\* Requests are sent one after another, each after the response to the one
\* before has been read (tests/pusher.rs, run_request).
OneAtATime(r) == r = 1 /\ \A q \in Requests : pc[q] = "idle"

Next ==
    \E r \in Requests :
        \/ \E b \in Bodies : OneAtATime(r) /\ from_request(r, b)
        \/ push_notification(r)
        \/ fcm_lock_acquired(r)
        \/ \E res \in SendResults : send_returns(r, res)
        \/ sleep_ends(r)
        \/ finish(r)
        \/ close(r)

Spec == Init /\ [][Next]_vars

\* -------------------------------------------------------- concurrent requests
\* Requests handled at the same time, one task each (axum::serve).  Their
\* bodies are well-formed and name devices with the configured app id, one
\* sent through the FCM sender and one through the APNS sender.
ConcBodies ==
    {b \in Bodies : /\ BodyAccepted(b)
                    /\ b.len = DEFAULT_NOTIFICATION_REQUEST_BODY_SIZE_LIMIT
                    /\ b.notification = test_message(FALSE)
                    /\ \A i \in DOMAIN b.devices : b.devices[i] \in {DevGeneric, DevIosApns}}

\* A new request is given the first free task.
FirstIdle(r) == pc[r] = "idle" /\ \A q \in Requests : q < r => pc[q] # "idle"

NextConc ==
    \E r \in Requests :
        \/ \E b \in ConcBodies : FirstIdle(r) /\ from_request(r, b)
        \/ push_notification(r)
        \/ fcm_lock_acquired(r)
        \/ \E res \in SendResults : send_returns(r, res)
        \/ sleep_ends(r)
        \/ finish(r)
        \/ close(r)

\* The server with no retry or one retry configured.
InitConc ==
    /\ max_retries \in {0, 1}
    /\ settings = TestSettings
    /\ AppStateNew
    /\ JitterNew(0)

SpecConc == InitConc /\ [][NextConc]_vars

\* -------------------------------------------------- requests that are served
\* Concurrent requests, each for one device sent through the FCM sender, whose
\* sender calls all return, Ok or Err, and whose sleeps all end.  The runtime polls every task that can go on (weak
\* fairness of each step of each request), and tokio's Mutex hands the lock
\* to its waiters in the order they asked, so no waiter is passed over for
\* ever (strong fairness of the acquisition).
LiveBodies == {b \in ConcBodies : b.devices = <<DevGeneric>>}

\* The server with one retry configured.
InitLive ==
    /\ max_retries = 1
    /\ settings = TestSettings
    /\ AppStateNew
    /\ JitterNew(0)

NextLive ==
    \E r \in Requests :
        \/ \E b \in LiveBodies : FirstIdle(r) /\ from_request(r, b)
        \/ push_notification(r)
        \/ fcm_lock_acquired(r)
        \/ \E res \in {"ok", "err"} : send_returns(r, res)
        \/ sleep_ends(r)
        \/ finish(r)
        \/ close(r)

Fairness ==
    \A r \in Requests :
        /\ WF_vars(push_notification(r))
        /\ SF_vars(fcm_lock_acquired(r))
        /\ WF_vars(\E res \in {"ok", "err"} : send_returns(r, res))
        /\ WF_vars(sleep_ends(r))
        /\ WF_vars(finish(r))

SpecLive == InitLive /\ [][NextLive]_vars /\ Fairness

\* --------------------------------------------------------- abandoned requests
\* Concurrent requests any of which may be abandoned: a send call of either
\* sender may panic, and the connection may be dropped at any await.
InitAbandon ==
    /\ max_retries = 1
    /\ settings = TestSettings
    /\ AppStateNew
    /\ JitterNew(0)

NextAbandon ==
    \E r \in Requests :
        \/ \E b \in ConcBodies : FirstIdle(r) /\ from_request(r, b)
        \/ push_notification(r)
        \/ fcm_lock_acquired(r)
        \/ \E res \in SendResults : send_returns(r, res)
        \/ sleep_ends(r)
        \/ cancel(r)
        \/ finish(r)
        \/ close(r)

SpecAbandon == InitAbandon /\ [][NextAbandon]_vars

\* ------------------------------------------------------------------ routing
\* Every combination of the device fields that routing reads: the app id
\* (configured or foreign, with or without the legacy suffix, and the
\* configured one followed by something else), the declared data-message
\* kind and the provider preference.
RouteDevices ==
    [app_id : {<<"com.fox">>, <<"com.fox", ".data_message">>, <<"com.fox", ".beta">>,
               <<"com.paw">>, <<"com.paw", ".data_message">>},
     pushkey : {"k1"},
     data_message : {"None", "android", "ios"},
     use_direct_apns : {"None", "Some(false)", "Some(true)"},
     data : {<<"format">>}]

\* Requests that name one such device.
RouteBodies ==
    [len : {DEFAULT_NOTIFICATION_REQUEST_BODY_SIZE_LIMIT}, json_ok : {TRUE},
     notification : {test_message(FALSE)}, devices : {<<d>> : d \in RouteDevices}]

\* The server with no retry configured.
InitRoute ==
    /\ max_retries = 0
    /\ settings = TestSettings
    /\ AppStateNew
    /\ JitterNew(0)

NextRoute ==
    \E r \in Requests :
        \/ \E b \in RouteBodies : OneAtATime(r) /\ from_request(r, b)
        \/ push_notification(r)
        \/ fcm_lock_acquired(r)
        \/ \E res \in SendResults : send_returns(r, res)
        \/ finish(r)
        \/ close(r)

SpecRoute == InitRoute /\ [][NextRoute]_vars

\* ----------------------------------------------------------------- payloads
\* Notifications with and without an event (an event carries its id and its
\* type), with and without a room, without counts, with no unread message
\* and with some; and encrypted ones, which carry a ciphertext.
PayloadNotifications ==
    {[event_id |-> IF e THEN <<"uwu">> ELSE <<>>,
      room_id |-> IF m THEN <<"owo">> ELSE <<>>,
      type |-> IF e THEN <<"m.room.message">> ELSE <<>>,
      counts |-> c,
      ciphertext |-> <<>>] :
         e \in BOOLEAN, m \in BOOLEAN,
         c \in {<<>>, <<[unread |-> <<0>>]>>, <<[unread |-> <<1337>>]>>}}
    \cup
    {[event_id |-> <<"uwu">>, room_id |-> <<"owo">>, type |-> <<"m.room.encrypted">>,
      counts |-> c, ciphertext |-> <<"cipher">>] :
         c \in {<<>>, <<[unread |-> <<0>>]>>, <<[unread |-> <<1337>>]>>}}

\* Devices with the configured app id, with and without the legacy suffix, of
\* every declared kind and provider preference; and two devices parsed from
\* the same JSON text whose data maps iterate in different orders.
PayloadDevices ==
    [app_id : {<<"com.fox">>, <<"com.fox", ".data_message">>},
     pushkey : {"k1"},
     data_message : {"None", "android", "ios"},
     use_direct_apns : {"None", "Some(true)"},
     data : {<<"format">>}]
    \cup
    [app_id : {<<"com.fox">>}, pushkey : {"k1"}, data_message : {"android"},
     use_direct_apns : {"None"},
     data : {<<"format", "default_payload">>, <<"default_payload", "format">>}]

\* Requests that name one such device.
PayloadBodies ==
    [len : {DEFAULT_NOTIFICATION_REQUEST_BODY_SIZE_LIMIT}, json_ok : {TRUE},
     notification : PayloadNotifications, devices : {<<d>> : d \in PayloadDevices}]

\* Settings with either value of the apns-priority header.
PayloadSettings ==
    {[TestSettings EXCEPT !.apns_priority = <<p>>] : p \in {"5", "10"}}

\* The server with one retry configured.
InitPayload ==
    /\ max_retries = 1
    /\ settings \in PayloadSettings
    /\ AppStateNew
    /\ JitterNew(0)

\* The senders return Ok or Err.
NextPayload ==
    \E r \in Requests :
        \/ \E b \in PayloadBodies : OneAtATime(r) /\ from_request(r, b)
        \/ push_notification(r)
        \/ fcm_lock_acquired(r)
        \/ \E res \in {"ok", "err"} : send_returns(r, res)
        \/ sleep_ends(r)
        \/ finish(r)
        \/ close(r)

SpecPayload == InitPayload /\ [][NextPayload]_vars

\* ------------------------------------------------------ the same body twice
\* A request is received while the answered one before it has not been
\* dropped yet, so that what was built for both can be compared.  The bodies
\* name one device that is sent through the FCM sender: a generic one, one of
\* declared kind ios, and one of declared kind android whose data has two
\* keys.  Device.data.data is a std HashMap, built anew with its own
\* RandomState by every parse, so the two keys may iterate in either order
\* whatever the JSON text is.
ReplayBodies ==
    {b \in PayloadBodies :
        /\ b.notification.counts = <<[unread |-> <<1337>>]>>
        /\ b.notification.room_id # <<>>
        /\ b.devices[1].app_id = app_id
        /\ b.devices[1].use_direct_apns = "None"}

\* The response of every earlier request has been written.
AfterResponse(r) == FirstIdle(r) /\ \A q \in Requests : pc[q] \in {"idle", "done"}

InitReplay ==
    /\ max_retries = 1
    /\ settings = TestSettings
    /\ AppStateNew
    /\ JitterNew(0)

NextReplay ==
    \E r \in Requests :
        \/ \E b \in ReplayBodies : AfterResponse(r) /\ from_request(r, b)
        \/ push_notification(r)
        \/ fcm_lock_acquired(r)
        \/ \E res \in {"ok", "err"} : send_returns(r, res)
        \/ sleep_ends(r)
        \/ finish(r)
        \/ close(r)

SpecReplay == InitReplay /\ [][NextReplay]_vars

\* ------------------------------------------------- several devices a request
\* Devices with the configured app id that are sent through the FCM sender,
\* of every declared kind and with different push keys, and the requests
\* that name up to MaxDevices of them in any order (tests/pusher.rs,
\* many_devices).
ManyDevices ==
    [app_id : {<<"com.fox">>}, pushkey : {"k1", "k2"},
     data_message : {"None", "android", "ios"}, use_direct_apns : {"None"},
     data : {<<"format">>}]

ManyBodies ==
    [len : {DEFAULT_NOTIFICATION_REQUEST_BODY_SIZE_LIMIT}, json_ok : {TRUE},
     notification : {test_message(FALSE)},
     devices : UNION {[1..n -> ManyDevices] : n \in 0..MaxDevices}]

\* The server with no retry configured.
InitMany ==
    /\ max_retries = 0
    /\ settings = TestSettings
    /\ AppStateNew
    /\ JitterNew(0)

NextMany ==
    \E r \in Requests :
        \/ \E b \in ManyBodies : OneAtATime(r) /\ from_request(r, b)
        \/ push_notification(r)
        \/ fcm_lock_acquired(r)
        \/ \E res \in {"ok", "err"} : send_returns(r, res)
        \/ finish(r)
        \/ close(r)

SpecMany == InitMany /\ [][NextMany]_vars

\* ------------------------------------------------------------------ jitter
\* A sorted sequence with x put in, after the entries equal to it.
SortedInsert(h, x) ==
    LET k == Cardinality({j \in 1..Len(h) : h[j] <= x})
    IN  SubSeq(h, 1, k) \o <<x>> \o SubSeq(h, k + 1, Len(h))

\* A full history takes the new instant at its top whatever its value, so the
\* pop that follows drops the instant just recorded.
HeapPush_NewOnTop(h, when) ==
    IF Len(h) < JitterCapacity THEN SortedInsert(h, when) ELSE <<when>> \o h

\* BinaryHeap::push of Reverse(when)
HeapPush(h, when) == SortedInsert(h, when)

\* A heap of the instants themselves: pop takes the newest.
HeapPop_Newest(h) == SubSeq(h, 1, Len(h) - 1)

\* BinaryHeap::pop on Reverse<Instant>: the greatest Reverse is the oldest instant
HeapPop(h) == Tail(h)

\* The length check left out: nothing is ever evicted.
Evict_Never(h) == h

\* push_successful_jitter: if self.past_jitters.len() > 25 { pop() }
Evict(h) == IF Len(h) > JitterCapacity THEN HeapPop(h) ELSE h

\* Jitter::jitter(freq) for freq = num samples in den hundredths of a second,
\* in ms rounded down: 1 / (freq * a) s = (den / 100) * (1 / a) / num s
\* = den * (1000 / a) / (num * 100) ms.  A zero den is the infinite frequency
\* of a sample of age zero, with delay 0.
jitter(num, den) == (den * InvAMilli) \div (num * 100)

\* Instant::elapsed, in hundredths of a second; zero for an instant that is
\* not in the past
Elapsed(t) == IF now > t THEN now - t ELSE 0

\* get_jitter_delay: the delay before the clamp
JitterEstimate(h) ==
    IF Len(h) < MinSamples
    THEN jitter(BootstrapFreq[1], BootstrapFreq[2])
    ELSE IF h = <<>> THEN max_jitter
    ELSE jitter(Len(h), Elapsed(Head(h)))

\* The clamp left out.
Clamp_None(j) == j

\* get_jitter_delay: if jitter > self.max_jitter { jitter = self.max_jitter }
Clamp(j) == IF j > max_jitter THEN max_jitter ELSE j

\* get_jitter_delay: the upper end of the range the delay is drawn from
DelayBound == Clamp(JitterEstimate(past_jitters))

\* thread_rng().gen_range(Duration::default()..=jitter): every duration of
\* the inclusive range, in ms rounded down.
GenRange(b) == 0..b

\* Jitter::push_successful_jitter(when), for any Instant, past or to come
push_successful_jitter(when) ==
    /\ Len(recorded) < MaxRecords
    /\ past_jitters' = Evict(HeapPush(past_jitters, when))
    /\ recorded' = SortedInsert(recorded, when)
    /\ jitter_delay' = <<>>
    /\ UNCHANGED <<max_jitter, now>>

\* The request is recorded where its delay is computed (what the comment on
\* push_successful_jitter rules out): every call adds the current instant.
get_jitter_delay_Records(d) ==
    /\ d \in GenRange(DelayBound)
    /\ jitter_delay' = <<d>>
    /\ past_jitters' = Evict(HeapPush(past_jitters, now))
    /\ UNCHANGED <<max_jitter, now, recorded>>

\* Jitter::get_jitter_delay returns d
get_jitter_delay(d) ==
    /\ d \in GenRange(DelayBound)
    /\ jitter_delay' = <<d>>
    /\ UNCHANGED <<past_jitters, max_jitter, now, recorded>>

\* A hundredth of a second passes.
Tick ==
    /\ now < MaxTime
    /\ now' = now + 1
    /\ jitter_delay' = <<>>
    /\ UNCHANGED <<past_jitters, max_jitter, recorded>>

\* The variables of the server, which a Jitter on its own does not touch.
server_vars ==
    <<max_retries, settings, served, budget, pc, body, devices, idx, attempt, retry_time,
      rejected, response, fcm_lock, successful_pushes, failed_pushes, notifications,
      devices_total, dev, obs, caught_panics>>

\* A Jitter on its own, its two methods called one after another.
InitJitter ==
    /\ max_retries = 0
    /\ settings = TestSettings
    /\ AppStateNew
    /\ \E mj \in MaxJitters : JitterNew(mj)

\* Neither the lock nor the server is involved.
JitterAlone == UNCHANGED <<rw_readers, rw_writers>> /\ UNCHANGED server_vars

NextJitter ==
    \/ \E when \in Instants : push_successful_jitter(when) /\ JitterAlone
    \/ \E d \in GenRange(DelayBound) : get_jitter_delay(d) /\ JitterAlone
    \/ Tick /\ JitterAlone

SpecJitter == InitJitter /\ [][NextJitter]_vars

\* ------------------------------------------------- the Jitter between tasks
\* The single Jitter shared by the request tasks behind a reader/writer lock:
\* get_jitter_delay (&self) is called under a read guard, and
\* push_successful_jitter (&mut self) under a write guard.

\* A read guard is given while no write guard exists.
ReadLockFree == rw_writers = {}

\* A write guard given whenever no other write guard exists, readers or not.
WriteLockFree_IgnoresReaders == rw_writers = {}

\* A write guard is given while no guard at all exists.
WriteLockFree == rw_writers = {} /\ rw_readers = {}

\* Task t takes a read guard and enters get_jitter_delay.
estimate_begin(t) ==
    /\ t \notin rw_readers \cup rw_writers
    /\ ReadLockFree
    /\ rw_readers' = rw_readers \cup {t}
    /\ UNCHANGED <<past_jitters, max_jitter, now, recorded, jitter_delay, rw_writers>>

\* get_jitter_delay returns d to task t, and the read guard is dropped.
estimate_end(t, d) ==
    /\ t \in rw_readers
    /\ get_jitter_delay(d)
    /\ rw_readers' = rw_readers \ {t}
    /\ UNCHANGED rw_writers

\* Task t takes the write guard and enters push_successful_jitter.
record_begin(t) ==
    /\ t \notin rw_readers \cup rw_writers
    /\ WriteLockFree
    /\ rw_writers' = rw_writers \cup {t}
    /\ UNCHANGED <<past_jitters, max_jitter, now, recorded, jitter_delay, rw_readers>>

\* push_successful_jitter(when) returns to task t, and the write guard is dropped.
record_end(t, when) ==
    /\ t \in rw_writers
    /\ push_successful_jitter(when)
    /\ rw_writers' = rw_writers \ {t}
    /\ UNCHANGED rw_readers

InitRw ==
    /\ max_retries = 0
    /\ settings = TestSettings
    /\ AppStateNew
    /\ \E mj \in MaxJitters : JitterNew(mj)

NextRw ==
    \E t \in Requests :
        \/ estimate_begin(t) /\ UNCHANGED server_vars
        \/ \E d \in GenRange(DelayBound) : estimate_end(t, d) /\ UNCHANGED server_vars
        \/ record_begin(t) /\ UNCHANGED server_vars
        \/ \E when \in Instants : record_end(t, when) /\ UNCHANGED server_vars

SpecRw == InitRw /\ [][NextRw]_vars

\* ------------------------------------------------------------------ claims
PushKeys == {d.pushkey : d \in DeviceSet}

Terminal == {"Succeeded", "Rejected"}

\* The handler returned its response (as opposed to the extractor's 400 and
\* the panic layer's 500).
Answered(r) == pc[r] = "done" /\ response[r].kind = "rejected"

Sends(dv) == dv.fcm_sends + dv.apns_sends

Occurs(k, seq) == \E j \in 1..Len(seq) : seq[j] = k

Occurrences(k, seq) == Cardinality({j \in 1..Len(seq) : seq[j] = k})

WrongAppId(d) == ~StartsWith(d.app_id, app_id)

Malformed(b) == b.len > DEFAULT_NOTIFICATION_REQUEST_BODY_SIZE_LIMIT \/ ~b.json_ok

\* The attempts a device gets: max_retries + 1, and one for a negative setting.
AttemptLimit == (IF max_retries > 0 THEN max_retries ELSE 0) + 1

RECURSIVE KeysOfRejected(_, _, _)
KeysOfRejected(ds, dvs, i) ==
    IF i > Len(ds) THEN <<>>
    ELSE (IF dvs[i].state = "Rejected" THEN <<ds[i].pushkey>> ELSE <<>>)
             \o KeysOfRejected(ds, dvs, i + 1)

\* C1 as stated: in an answered request every device is Succeeded or Rejected,
\* and a device's push key is in `rejected` iff that device is Rejected, also
\* when two devices carry the same push key.
C1_KeyRejectedIffDeviceRejected ==
    \A r \in Requests : Answered(r) =>
        \A i \in DOMAIN dev[r] :
            /\ dev[r][i].state \in Terminal
            /\ Occurs(devices[r][i].pushkey, response[r].rejected)
                   <=> dev[r][i].state = "Rejected"

\* C1 as amended: in an answered request every device has reached exactly one
\* terminal state, and every push key occurs in `rejected` once per Rejected
\* device that carries it (so a key is listed iff some device carrying it is
\* Rejected).
C1_OneOutcomePerDevice ==
    \A r \in Requests : Answered(r) =>
        /\ \A i \in DOMAIN dev[r] :
               /\ dev[r][i].state \in Terminal
               /\ dev[r][i].succ_inc + dev[r][i].rej = 1
               /\ dev[r][i].state = "Rejected" <=> dev[r][i].rej = 1
        /\ \A k \in PushKeys :
               Occurrences(k, response[r].rejected)
                   = Cardinality({i \in DOMAIN dev[r] :
                                     /\ devices[r][i].pushkey = k
                                     /\ dev[r][i].state = "Rejected"})

\* An answered request with two devices of the same push key, one Succeeded
\* and one Rejected.
C1_Witness ==
    \E r \in Requests : Answered(r) /\
        \E i, j \in DOMAIN dev[r] :
            /\ devices[r][i].pushkey = devices[r][j].pushkey
            /\ dev[r][i].state = "Succeeded"
            /\ dev[r][j].state = "Rejected"

\* C2 as stated: a device all of whose sends fail is Rejected after exactly
\* max_retries + 1 sends, not earlier and with no send beyond them.
C2_FailingDeviceGetsMaxRetriesPlusOne ==
    \A r \in Requests : \A i \in DOMAIN dev[r] :
        LET dv == dev[r][i] IN
        /\ dv.fails <= max_retries + 1
        /\ (dv.state = "Rejected" /\ Sends(dv) >= 1) =>
               Sends(dv) = max_retries + 1 /\ dv.fails = max_retries + 1
        /\ (dv.fails >= 1 /\ dv.fails = max_retries + 1) => dv.state = "Rejected"

\* C2 as amended: a device all of whose sends fail is Rejected after exactly
\* max(max_retries, 0) + 1 sends: it is Rejected by the failure of that send,
\* not by an earlier one, and its key is recorded once.
C2_FailingDeviceGetsAttemptLimit ==
    \A r \in Requests : \A i \in DOMAIN dev[r] :
        LET dv == dev[r][i] IN
        /\ dv.fails <= AttemptLimit
        /\ (dv.state = "Rejected" /\ Sends(dv) >= 1) =>
               /\ Sends(dv) = AttemptLimit
               /\ dv.fails = AttemptLimit
               /\ dv.rej = 1
        /\ dv.fails = AttemptLimit => dv.state = "Rejected"

\* A device Rejected after retries: every one of its max_retries + 1 > 1 sends
\* failed.
C2_Witness ==
    \E r \in Requests : \E i \in DOMAIN dev[r] :
        /\ max_retries >= 1
        /\ dev[r][i].state = "Rejected"
        /\ dev[r][i].fails = max_retries + 1
        /\ Sends(dev[r][i]) = max_retries + 1

\* C3 as stated: no device is sent to more than max_retries + 1 times in a
\* request, whatever max_retries is configured.
C3_SendsAtMostMaxRetriesPlusOne ==
    \A r \in Requests : \A i \in DOMAIN dev[r] :
        Sends(dev[r][i]) <= max_retries + 1

\* C3 as amended: no device is sent to more than max(max_retries, 0) + 1 times
\* in a request, nor is the push function called more often for it.
C3_SendsAtMostAttemptLimit ==
    \A r \in Requests : \A i \in DOMAIN dev[r] :
        /\ Sends(dev[r][i]) <= AttemptLimit
        /\ dev[r][i].calls <= AttemptLimit

\* A device that used all its attempts and succeeded with the last one.
C3_Witness ==
    \E r \in Requests : \E i \in DOMAIN dev[r] :
        /\ max_retries >= 1
        /\ dev[r][i].state = "Succeeded"
        /\ Sends(dev[r][i]) = max_retries + 1

\* C4: for a device whose app id does not start with the configured app id no
\* sender is ever invoked, on the FCM and on the APNS path, and in the answered
\* request it is Rejected and its push key is in `rejected`.
C4_WrongAppIdRejectedUnsent ==
    \A r \in Requests : \A i \in DOMAIN dev[r] :
        WrongAppId(devices[r][i]) =>
            /\ dev[r][i].fcm_sends = 0
            /\ dev[r][i].apns_sends = 0
            /\ dev[r][i].state # "Succeeded"
            /\ Answered(r) =>
                   /\ dev[r][i].state = "Rejected"
                   /\ Occurs(devices[r][i].pushkey, response[r].rejected)

\* An answered request that named a wrong-app-id device on each routing path.
C4_Witness ==
    \E r \in Requests : Answered(r) /\
        \E i, j \in DOMAIN dev[r] :
            /\ WrongAppId(devices[r][i]) /\ devices[r][i].use_direct_apns = "Some(true)"
            /\ WrongAppId(devices[r][j]) /\ devices[r][j].use_direct_apns # "Some(true)"
            /\ response[r].rejected = <<devices[r][1].pushkey, devices[r][2].pushkey>>

\* C5: a device that fails the app-id check goes from Pending straight to
\* Rejected: the push function is called for it once, no backoff is slept and
\* no retry attempt is counted.
C5_WrongAppIdNotRetried ==
    \A r \in Requests : \A i \in DOMAIN dev[r] :
        WrongAppId(devices[r][i]) =>
            /\ dev[r][i].sleeps = <<>>
            /\ dev[r][i].calls <= 1
            /\ dev[r][i].state \in {"Pending", "Rejected"}

\* C6: the response's `rejected` is the push keys of the Rejected devices in
\* the order of the request's device list.
C6_RejectedInDeviceOrder ==
    \A r \in Requests : Answered(r) =>
        response[r].rejected = KeysOfRejected(devices[r], dev[r], 1)

\* Two Rejected devices with different keys, the first after more failed
\* sends than the second.
C6_Witness ==
    \E r \in Requests :
        /\ Answered(r)
        /\ Len(response[r].rejected) = 2
        /\ response[r].rejected[1] # response[r].rejected[2]
        /\ dev[r][1].fails > dev[r][2].fails

\* C7: a request with a well-formed body whose handler did not panic is
\* answered 200 with a `rejected` list that names failing devices only, whether
\* none, some or all devices are Rejected; no other request is answered 200.
C7_DeviceFailuresAnswered200 ==
    \A r \in Requests : pc[r] = "done" =>
        /\ (~Malformed(body[r]) /\ obs[r].faulted = 0) =>
               /\ response[r].status = StatusOk
               /\ response[r].kind = "rejected"
               /\ \A j \in 1..Len(response[r].rejected) :
                      \E i \in DOMAIN dev[r] :
                          /\ devices[r][i].pushkey = response[r].rejected[j]
                          /\ dev[r][i].state = "Rejected"
        /\ response[r].status = StatusOk =>
               ~Malformed(body[r]) /\ obs[r].faulted = 0

\* A partial failure: a Succeeded device and a device Rejected after failed
\* sends, answered 200 with one rejected key.
C7_Witness ==
    \E r \in Requests :
        /\ pc[r] = "done"
        /\ response[r].status = StatusOk
        /\ Len(response[r].rejected) = 1
        /\ \E i, j \in DOMAIN dev[r] :
               /\ dev[r][i].state = "Succeeded"
               /\ dev[r][j].state = "Rejected" /\ dev[r][j].fails >= 1

\* C8: when a request has its response (of any status), successful_pushes has
\* grown by one for each Succeeded device and failed_pushes by one for each
\* Rejected device (under the device's device_type label), however many
\* attempts failed.
C8_PushCountersOncePerDevice ==
    \A r \in Requests : pc[r] = "done" =>
        /\ \A i \in DOMAIN dev[r] :
               /\ dev[r][i].state = "Succeeded" =>
                      dev[r][i].succ_inc = 1 /\ dev[r][i].fail_inc = 0
               /\ dev[r][i].state = "Rejected" =>
                      dev[r][i].succ_inc = 0 /\ dev[r][i].fail_inc = 1
        /\ \A t \in DeviceTypes :
               /\ successful_pushes[t] - obs[r].successful_pushes[t]
                      = Cardinality({i \in DOMAIN dev[r] :
                                        /\ dev[r][i].state = "Succeeded"
                                        /\ device_type(devices[r][i]) = t})
               /\ failed_pushes[t] - obs[r].failed_pushes[t]
                      = Cardinality({i \in DOMAIN dev[r] :
                                        /\ dev[r][i].state = "Rejected"
                                        /\ device_type(devices[r][i]) = t})

\* One device that succeeded after a failed attempt and one always-failing
\* device that was retried: each counter has grown by one.
C8_Witness ==
    \E r \in Requests :
        /\ Answered(r)
        /\ \E i, j \in DOMAIN dev[r] :
               /\ dev[r][i].state = "Succeeded" /\ dev[r][i].fails >= 1
               /\ dev[r][j].state = "Rejected" /\ dev[r][j].fails >= 2
        /\ \E t \in DeviceTypes :
               successful_pushes[t] = obs[r].successful_pushes[t] + 1
        /\ \E t \in DeviceTypes :
               failed_pushes[t] = obs[r].failed_pushes[t] + 1

\* C9: a request whose body is over the size limit or does not parse is never
\* processed: it is answered 400 with errcode BAD_JSON, no device of it is
\* touched and no counter has changed since it arrived.
C9_MalformedBodyIs400 ==
    \A r \in Requests : (pc[r] # "idle" /\ Malformed(body[r])) =>
        /\ pc[r] = "done"
        /\ response[r].status = StatusBadRequest
        /\ response[r].errcode = "BAD_JSON"
        /\ dev[r] = <<>>
        /\ successful_pushes = obs[r].successful_pushes
        /\ failed_pushes = obs[r].failed_pushes
        /\ notifications = obs[r].notifications
        /\ devices_total = obs[r].devices_total

\* An oversized body that names devices, answered 400 after an earlier request
\* has moved the counters.
C9_Witness ==
    \E r \in Requests :
        /\ pc[r] = "done"
        /\ body[r].json_ok
        /\ body[r].len > DEFAULT_NOTIFICATION_REQUEST_BODY_SIZE_LIMIT
        /\ Len(body[r].devices) > 0
        /\ response[r].status = StatusBadRequest
        /\ devices_total > 0

\* C10: when the send for one device panics, the other devices of the request
\* still reach a terminal state and their outcomes are reported in a
\* `rejected` response.
C10_PanicSparesSiblings ==
    \A r \in Requests : (pc[r] = "done" /\ obs[r].faulted # 0) =>
        \A i \in DOMAIN dev[r] : i # obs[r].faulted =>
            /\ dev[r][i].state \in Terminal
            /\ response[r].kind = "rejected"

\* C11: a request whose sender panicked is answered 500 (and only such a
\* request is), the panic leaves the lock of the FCM sender free, and with it
\* nothing that keeps the next request from being received and handled.
C11_PanicAnswered500ServerLives ==
    /\ \A r \in Requests :
           /\ (pc[r] = "done" /\ obs[r].faulted # 0) =>
                  /\ response[r].status = StatusInternalServerError
                  /\ response[r].kind = "panic"
           /\ (pc[r] = "done" /\ response[r].status = StatusInternalServerError) =>
                  obs[r].faulted # 0
           /\ fcm_lock = r => pc[r] = "send"
    /\ (\A r \in Requests : pc[r] = "idle") => fcm_lock = 0

\* After the FCM sender panicked in an earlier request, a later request is
\* answered 200 with a device that Succeeded through the FCM sender.
C11_Witness ==
    /\ caught_panics >= 1
    /\ \E r \in Requests :
           /\ Answered(r)
           /\ \E i \in DOMAIN dev[r] :
                  dev[r][i].state = "Succeeded" /\ dev[r][i].fcm_sends >= 1

\* C12: the outcome of a device is a function of the device and of the
\* results of its own sends.  In a request that has its response every device
\* (but one whose own send panicked) is Succeeded or Rejected: Rejected when
\* its app id is wrong or its own sends failed AttemptLimit times, Succeeded
\* otherwise, with one call per own failure plus the successful one, whatever
\* the other devices of the request are and whatever their sends returned.
C12_OutcomeFromOwnSends ==
    \A r \in Requests : (pc[r] = "done" /\ ~Malformed(body[r])) =>
        \A i \in DOMAIN dev[r] : i # obs[r].faulted =>
            LET d == devices[r][i]
                dv == dev[r][i]
                own == IF WrongAppId(d) \/ dv.fails = AttemptLimit
                       THEN "Rejected" ELSE "Succeeded"
            IN  /\ dv.state = own
                /\ dv.calls = IF own = "Rejected" THEN AttemptLimit ELSE dv.fails + 1

\* C13: for every request exactly one jitter delay is requested from the
\* Jitter, and it has been requested (and slept) before any sender is called
\* for a device of the request.
C13_JitterDelayBeforeFirstSend ==
    \A r \in Requests :
        /\ obs[r].jitter_delays <= 1
        /\ (\E i \in DOMAIN dev[r] : Sends(dev[r][i]) >= 1) => obs[r].jitter_delays = 1

\* C14: when a request has its response, push_successful_jitter has been
\* called once since the request arrived if a device of it Succeeded, and not
\* at all if none did.
C14_HistoryWrittenOncePerSuccess ==
    \A r \in Requests : pc[r] = "done" =>
        Len(recorded) - obs[r].recorded
            = IF \E i \in DOMAIN dev[r] : dev[r][i].state = "Succeeded" THEN 1 ELSE 0

\* C15: after any sequence of push_successful_jitter calls, with instants in
\* any order, the history holds at most 25 instants (and all of them while
\* fewer than 25 were given).
C15_HistoryAtMost25 ==
    /\ Len(past_jitters) <= JitterCapacity
    /\ Len(past_jitters) = IF Len(recorded) < JitterCapacity
                            THEN Len(recorded) ELSE JitterCapacity

\* More than 25 instants were given, the last of them out of order (older
\* than the newest one kept), and 25 are held.
C15_Witness ==
    /\ Len(recorded) > JitterCapacity
    /\ Len(past_jitters) = JitterCapacity
    /\ past_jitters[1] < past_jitters[JitterCapacity]

\* C16: the delay returned by get_jitter_delay lies in [0, max_jitter] for
\* every history (empty, below 4 samples, 4 and more, oldest sample of age
\* zero or old), and is 0 when max_jitter is 0.
C16_DelayWithinMaxJitter ==
    jitter_delay # <<>> =>
        /\ 0 <= jitter_delay[1]
        /\ jitter_delay[1] <= max_jitter
        /\ max_jitter = 0 => jitter_delay[1] = 0

\* The full ceiling is returned where the clamp cut the estimate of a
\* history of at least 4 samples.
C16_Witness ==
    /\ jitter_delay # <<>>
    /\ max_jitter > 0
    /\ jitter_delay[1] = max_jitter
    /\ Len(past_jitters) >= MinSamples
    /\ JitterEstimate(past_jitters) > max_jitter

\* The newest 25 of all instants recorded.
Retained ==
    IF Len(recorded) <= JitterCapacity THEN recorded
    ELSE SubSeq(recorded, Len(recorded) - JitterCapacity + 1, Len(recorded))

\* C17: the bound of the delay is the documented one.  With n retained
\* samples (the newest 25 of those recorded) and the oldest of them aged
\* `age` (in hundredths of a second; 0 for an instant that is not in the
\* past), the unclamped bound is 1/(freq * a) with freq = n/age, and with
\* freq = 1/4 per second when n < 4 whatever the instants; the bound is the
\* smaller of it and max_jitter.  In ms, rounded down: bound * n * 100 <=
\* age * 1000/a < (bound + 1) * n * 100.
C17_BoundFollowsFormula ==
    LET n == IF Len(Retained) < MinSamples THEN 1 ELSE Len(Retained)
        age == IF Len(Retained) < MinSamples THEN 400
               ELSE IF now > Retained[1] THEN now - Retained[1] ELSE 0
        b == DelayBound
    IN  /\ b <= max_jitter
        /\ b < max_jitter =>
               /\ b * n * 100 <= age * InvAMilli
               /\ age * InvAMilli < (b + 1) * n * 100
        /\ b = max_jitter => age * InvAMilli >= max_jitter * n * 100

\* More than 25 instants were recorded out of order, some of them evicted
\* and older than every one kept, and the bound is below the ceiling.
C17_Witness ==
    /\ Len(recorded) > JitterCapacity
    /\ recorded[1] < Retained[1]
    /\ recorded[Len(recorded)] > Retained[1]
    /\ now > Retained[1]
    /\ DelayBound > 0
    /\ DelayBound < max_jitter

\* C19: at most one send call of the FCM (Android-family) sender is in
\* progress at any time, over all requests, devices and retries; the holder
\* of the sender's lock is the request whose FCM send is in progress.
C19_OneFcmSendAtATime ==
    LET sending == {r \in Requests :
                       pc[r] = "send" /\ ~UsesApns(devices[r][idx[r]])}
    IN  /\ Cardinality(sending) <= 1
        /\ \A r \in sending : fcm_lock = r

\* An FCM send is in progress in one request while another request waits
\* for the lock of the sender with a retry of its device.
C19_Witness ==
    \E r, q \in Requests :
        /\ r # q
        /\ pc[r] = "send" /\ ~UsesApns(devices[r][idx[r]])
        /\ pc[q] = "lock" /\ attempt[q] >= 1

\* C18: any number of tasks may be inside get_jitter_delay together, but
\* while a task is inside push_successful_jitter no other task is inside
\* either method.
C18_ReadersWriterExclusion ==
    /\ Cardinality(rw_writers) <= 1
    /\ rw_writers # {} => rw_readers = {}

\* Two tasks are inside get_jitter_delay together, after a write.
C18_Witness ==
    /\ Cardinality(rw_readers) >= 2
    /\ Len(recorded) >= 1

\* The device carries the legacy suffix or declares the kind android or ios.
DataMessageDevice(d) ==
    \/ EndsWith(d.app_id, DataMessageSuffix)
    \/ d.data_message \in {"android", "ios"}

\* The payload the documented rules give a device sent through FCM.
DocumentedShape(d) ==
    IF EndsWith(d.app_id, DataMessageSuffix) \/ d.data_message = "android"
    THEN "AndroidData"
    ELSE IF d.data_message = "ios" THEN "IosData" ELSE "Generic"

\* C20 as stated: a device with the legacy suffix or the declared kind android
\* or ios is sent with its data-message shape through the FCM sender even
\* when it prefers APNS; only devices of the generic shape are sent through
\* the APNS sender.
C20_DataMessageDevicesThroughFcm ==
    \A r \in Requests : \A i \in DOMAIN dev[r] :
        LET d == devices[r][i]
            dv == dev[r][i]
        IN  Sends(dv) >= 1 =>
                /\ DataMessageDevice(d) =>
                       /\ dv.apns_sends = 0
                       /\ dv.shape = DocumentedShape(d)
                /\ dv.apns_sends >= 1 => DocumentedShape(d) = "Generic"

\* C20 as amended: the preference for APNS is consulted first.  A device
\* that declares it is sent through the APNS sender with the native payload,
\* whatever its suffix and its declared kind; every other device is sent
\* through the FCM sender with the shape of the first matching rule: legacy
\* suffix or kind android, then kind ios, then generic.
C20_ApnsPreferenceFirst ==
    \A r \in Requests : \A i \in DOMAIN dev[r] :
        LET d == devices[r][i]
            dv == dev[r][i]
        IN  Sends(dv) >= 1 =>
                IF d.use_direct_apns = "Some(true)"
                THEN dv.fcm_sends = 0 /\ dv.shape = "ApnsNative"
                ELSE dv.apns_sends = 0 /\ dv.shape = DocumentedShape(d)

\* A device with the legacy suffix that prefers APNS Succeeded through the
\* APNS sender, after a request whose device of kind ios, preferring FCM, was
\* counted as an Ios push.
C20_Witness ==
    /\ successful_pushes["Ios"] >= 1
    /\ \E r \in Requests : \E i \in DOMAIN dev[r] :
           /\ EndsWith(devices[r][i].app_id, DataMessageSuffix)
           /\ devices[r][i].use_direct_apns = "Some(true)"
           /\ dev[r][i].state = "Succeeded"
           /\ dev[r][i].apns_sends = 1
           /\ dev[r][i].shape = "ApnsNative"

\* C21: with senders that succeed, a device with the configured app id gets
\* exactly one message, through exactly one sender: through the APNS sender
\* and not the FCM sender when it declares the preference for APNS, through
\* the FCM sender and not the APNS sender otherwise; in every request of a
\* sequence.
C21_OneMessageThroughOneSender ==
    \A r \in Requests : \A i \in DOMAIN dev[r] :
        LET d == devices[r][i]
            dv == dev[r][i]
        IN  /\ (Answered(r) /\ ~WrongAppId(d) /\ dv.fails = 0) => dv.state = "Succeeded"
            /\ (dv.state = "Succeeded" /\ dv.fails = 0) =>
                   /\ Len(dv.payloads) = 1
                   /\ IF d.use_direct_apns = "Some(true)"
                      THEN /\ dv.apns_sends = 1 /\ dv.fcm_sends = 0
                           /\ dv.payloads[1].sender = "apns"
                      ELSE /\ dv.fcm_sends = 1 /\ dv.apns_sends = 0
                           /\ dv.payloads[1].sender = "fcm"

\* The second request of a sequence is answered with its device, of declared
\* kind ios and preferring APNS, Succeeded by one message to the APNS sender,
\* after the generic device of the first request Succeeded.
C21_Witness ==
    /\ served = 2
    /\ successful_pushes["None"] = 1
    /\ \E r \in Requests : Answered(r) /\ \E i \in DOMAIN dev[r] :
           /\ devices[r][i].data_message = "ios"
           /\ devices[r][i].use_direct_apns = "Some(true)"
           /\ dev[r][i].state = "Succeeded"
           /\ dev[r][i].apns_sends = 1
           /\ dev[r][i].fcm_sends = 0

\* C22: every payload built from a counts-only notification for a generic
\* device (no legacy suffix, no declared kind) carries no visible title or
\* body and has the unread count as its badge, through the FCM sender and
\* through the APNS sender; with no unread message and no event id the badge
\* is 0.  A notification is counts-only when it has no event id and no
\* ciphertext, or counts with no unread message, or counts and a ciphertext
\* (no Notification of the gateway carries an explicit flag).
C22_CountsOnlyHasNoTitleOrBody ==
    \A r \in Requests : \A i \in DOMAIN dev[r] :
        LET d == devices[r][i]
            n == body[r].notification
            counts_only ==
                \/ n.event_id = <<>> /\ n.ciphertext = <<>>
                \/ n.counts # <<>> /\ unread_count(n) = 0
                \/ n.counts # <<>> /\ n.ciphertext # <<>>
        IN  (counts_only /\ data_message_type(d) = "None") =>
                \A k \in DOMAIN dev[r][i].payloads :
                    LET p == dev[r][i].payloads[k]
                    IN  /\ p.notification = <<>>
                        /\ p.apns # <<>> /\ p.apns[1].badge = unread_count(n)

\* The device's data-message kind is android: legacy suffix or declared kind.
AndroidKind(d) == EndsWith(d.app_id, DataMessageSuffix) \/ d.data_message = "android"

\* C23 as stated: every payload built for a device of kind android has a data
\* block and no visible notification block, whatever the unread count and
\* whether or not the notification has room and event ids.
C23_AndroidKindIsDataOnly ==
    \A r \in Requests : \A i \in DOMAIN dev[r] :
        AndroidKind(devices[r][i]) =>
            \A k \in DOMAIN dev[r][i].payloads :
                LET p == dev[r][i].payloads[k]
                IN  p.data # <<>> /\ p.notification = <<>>

\* C23 as amended: every payload built for a device of kind android that does
\* not declare the preference for APNS goes to the FCM sender with a data
\* block (the notification's fields and the one device) and with no visible
\* block, in the message and in its Android part, whatever the unread count
\* and the ids; for a device of kind android that declares the preference
\* the native APNS payload is built, with title and body and no data block.
C23_AndroidKindOverFcmIsDataOnly ==
    \A r \in Requests : \A i \in DOMAIN dev[r] :
        LET d == devices[r][i]
            n == body[r].notification
        IN  AndroidKind(d) =>
                \A k \in DOMAIN dev[r][i].payloads :
                    LET p == dev[r][i].payloads[k]
                    IN  IF d.use_direct_apns = "Some(true)"
                        THEN p.sender = "apns" /\ p.data = <<>> /\ p.notification # <<>>
                        ELSE /\ p.sender = "fcm"
                             /\ p.notification = <<>>
                             /\ p.android # <<>> /\ ~p.android[1].notification
                             /\ Len(p.data) = 1
                             /\ p.data[1].devices = <<d>>
                             /\ p.data[1].counts = n.counts
                             /\ p.data[1].room_id = n.room_id
                             /\ p.data[1].event_id = n.event_id

\* A device with the legacy suffix and one of declared kind android have got
\* their data-only payload of a notification with room, event and unread
\* messages, which gives a generic device a visible block.
C23_Witness ==
    /\ successful_pushes["AndroidLegacy"] >= 1
    /\ \E r \in Requests : \E i \in DOMAIN dev[r] :
           /\ devices[r][i].data_message = "android"
           /\ ~EndsWith(devices[r][i].app_id, DataMessageSuffix)
           /\ devices[r][i].use_direct_apns = "None"
           /\ body[r].notification.room_id # <<>>
           /\ body[r].notification.event_id # <<>>
           /\ unread_count(body[r].notification) > 0
           /\ dev[r][i].state = "Succeeded"
           /\ Len(dev[r][i].payloads) = 2
           /\ dev[r][i].payloads[2].data # <<>>
           /\ dev[r][i].payloads[2].notification = <<>>

\* ProcessedNotification::is_data_message: the first device carries the
\* configured app id with the legacy suffix
is_data_message(ds) == ds[1].app_id = app_id \o DataMessageSuffix

\* ProcessedNotification::is_clearing
is_clearing(n, ds) ==
    n.event_id = <<>> \/ (~is_data_message(ds) /\ unread_count(n) = 0)

\* ProcessedNotification::type, as NotificationType displays it
NotificationType(n, ds) ==
    CASE is_clearing(n, ds) -> "clearing"
      [] ~is_clearing(n, ds) /\ is_data_message(ds) -> "data"
      [] OTHER -> "notification"

\* C24: when a device of an answered request Succeeded, the notification
\* counter has grown by one under the derived type of the notification
\* (clearing, data or notification) and under no other attribute.
C24_DeliveredCounterTaggedByDerivedType ==
    \A r \in Requests :
        (Answered(r) /\ \E i \in DOMAIN dev[r] : dev[r][i].state = "Succeeded") =>
            LET t == <<NotificationType(body[r].notification, devices[r])>>
            IN  \A l \in NotificationLabels :
                    notifications[l] - obs[r].notifications[l] = IF l = t THEN 1 ELSE 0

\* The sum of f over the finite set S.
RECURSIVE SumOver(_, _)
SumOver(f, S) ==
    IF S = {} THEN 0
    ELSE LET x == CHOOSE y \in S : TRUE IN f[x] + SumOver(f, S \ {x})

\* What counters.notifications has grown by, over all attributes, since
\* request r arrived.
DeliveredSince(r) ==
    SumOver(notifications, NotificationLabels)
        - SumOver(obs[r].notifications, NotificationLabels)

\* C25: when matrix_push has returned its response, the notification counter
\* has grown by exactly one for the request if a device of it Succeeded, and
\* not at all if every device was Rejected or the device list is empty; it
\* does not grow while the devices are still being handled.
C25_DeliveredCountedOncePerRequest ==
    \A r \in Requests :
        /\ Answered(r) =>
               DeliveredSince(r)
                   = IF \E i \in DOMAIN dev[r] : dev[r][i].state = "Succeeded"
                     THEN 1 ELSE 0
        /\ (pc[r] \notin {"idle", "done"}) => DeliveredSince(r) = 0

\* A request with two Succeeded devices, the first after a failed attempt,
\* has been answered and counted once.
C25_Witness ==
    \E r \in Requests :
        /\ Answered(r)
        /\ Len(dev[r]) = 2
        /\ dev[r][1].state = "Succeeded" /\ dev[r][1].fails >= 1
        /\ dev[r][2].state = "Succeeded"
        /\ DeliveredSince(r) = 1

\* C26: a device is accepted for delivery only if its app id is the
\* configured app id or the configured app id followed by the legacy suffix.
\* For a device with any other app id, one that only starts with the
\* configured app id included, no payload is built and no sender is called,
\* and it is Rejected by the first call of the push function.
C26_OnlyExactOrSuffixedAppIdAccepted ==
    \A r \in Requests : \A i \in DOMAIN dev[r] :
        LET d == devices[r][i]
            dv == dev[r][i]
        IN  d.app_id \notin {app_id, app_id \o DataMessageSuffix} =>
                /\ Sends(dv) = 0
                /\ dv.payloads = <<>>
                /\ dv.state \in {"Pending", "Rejected"}
                /\ dv.calls <= 1

\* The device as its JSON text gives it: the keys of its data as a set.
JsonDevice(d) == [d EXCEPT !.data = {d.data[k] : k \in DOMAIN d.data}]

\* C27: the payload is a function of the notification, the device and the
\* settings.  Any two payloads built from the same notification and the same
\* device under the same settings are identical: those of the attempts of one
\* request, and those of different requests, whatever was handled and
\* counted in between.
C27_SameInputsSamePayload ==
    \A r, q \in Requests : \A i \in DOMAIN dev[r] : \A j \in DOMAIN dev[q] :
        (/\ body[r].notification = body[q].notification
         /\ JsonDevice(devices[r][i]) = JsonDevice(devices[q][j])) =>
            \A k \in DOMAIN dev[r][i].payloads : \A l \in DOMAIN dev[q][j].payloads :
                dev[r][i].payloads[k] = dev[q][j].payloads[l]

\* C28: in every payload that has an Apple part, the apns-priority header is
\* "5" when the payload has no visible title and body (a background or
\* data-only delivery) and "10" when it has them (a visible delivery).
\* Violated: push_notification_fcm copies the header from the settings for
\* every notification, and push_notification_apns sets no priority at all.
C28_ApplePriorityFollowsDelivery ==
    \A r \in Requests : \A i \in DOMAIN dev[r] : \A k \in DOMAIN dev[r][i].payloads :
        LET p == dev[r][i].payloads[k]
        IN  p.apns # <<>> =>
                p.apns[1].apns_priority =
                    (IF p.notification = <<>> THEN <<"5">> ELSE <<"10">>)

\* C29: retry state is per device.  The k-th backoff sleep of every device
\* lasts 250 ms * 2^(k-1), and while a device is being attempted the attempt
\* counter is the number of that device's own failures so far and the backoff
\* is 250 ms doubled once per sleep of that device: both start at 0 and 250 ms
\* for each device, whatever the devices and the requests before it did.
C29_RetryStatePerDevice ==
    \A r \in Requests : \A i \in DOMAIN dev[r] :
        /\ \A k \in DOMAIN dev[r][i].sleeps :
               dev[r][i].sleeps[k] = InitialRetryTime * 2^(k - 1)
        /\ (i = idx[r] /\ pc[r] \in {"loop", "lock", "send"}) =>
               /\ attempt[r] = Len(dev[r][i].sleeps)
               /\ retry_time[r] = InitialRetryTime * 2^Len(dev[r][i].sleeps)

\* The second device of a request has slept 250 ms and then 500 ms, after the
\* first device of the request slept twice as well and was rejected.
C29_Witness ==
    \E r \in Requests :
        /\ Len(dev[r]) = 2
        /\ dev[r][1].state = "Rejected"
        /\ Len(dev[r][1].sleeps) = 2
        /\ dev[r][2].sleeps = <<InitialRetryTime, 2 * InitialRetryTime>>

\* C30: Succeeded and Rejected are terminal.  Once a device of a request is
\* Succeeded or Rejected, no step of the program changes anything recorded for
\* it (its state, the calls of a push function, the sender invocations, the
\* backoff sleeps, the counter increments, the rejected entries) for as long
\* as the request lasts.
C30_SucceededAndRejectedAreTerminal ==
    [][\A r \in Requests : \A i \in DOMAIN dev[r] :
           (dev[r][i].state \in Terminal /\ pc'[r] # "idle") =>
               /\ i \in DOMAIN dev'[r]
               /\ dev'[r][i] = dev[r][i]]_vars

\* The first device of a request succeeded at its first attempt; the handler
\* went on, and the second device has failed, slept and been rejected since.
C30_Witness ==
    \E r \in Requests :
        /\ Len(dev[r]) = 2
        /\ dev[r][1].state = "Succeeded"
        /\ dev[r][1].calls = 1
        /\ dev[r][2].state = "Rejected"
        /\ dev[r][2].sleeps # <<>>
        /\ pc[r] = "done"

\* C31: eviction takes the earliest instant.  The history is exactly the 25
\* latest of all the instants recorded so far (all of them while there are at
\* most 25), in whatever order they were recorded: every instant dropped is
\* no later than every instant kept, also when the instant just recorded is
\* itself the earliest of the 26.
C31_EarliestInstantEvicted ==
    LET n == Len(recorded)
        dropped == n - Len(past_jitters)
    IN  /\ dropped = (IF n > JitterCapacity THEN n - JitterCapacity ELSE 0)
        /\ \A t \in Instants :
               Cardinality({k \in DOMAIN past_jitters : past_jitters[k] = t})
                   = Cardinality({j \in (dropped + 1)..n : recorded[j] = t})
        /\ \A j \in 1..dropped : \A k \in DOMAIN past_jitters :
               recorded[j] <= past_jitters[k]

\* Two instants have been dropped, both earlier than every instant kept, and
\* the instants kept are not all the same.
C31_Witness ==
    /\ Len(recorded) > JitterCapacity + 1
    /\ Len(past_jitters) = JitterCapacity
    /\ recorded[2] < past_jitters[1]
    /\ past_jitters[1] < past_jitters[JitterCapacity]

\* C32: computing a delay leaves the history alone.  In every step that is not
\* a push_successful_jitter call (no instant is recorded), the history and the
\* ceiling stay as they are, and while the clock stands still so does the
\* bound the next delay is drawn from: however many delays are computed, the
\* bound for later requests is the same.
C32_DelayLeavesHistory ==
    [][recorded' = recorded =>
           /\ past_jitters' = past_jitters
           /\ max_jitter' = max_jitter
           /\ now' = now => DelayBound' = DelayBound]_vars

\* A delay has just been computed from a history of at least 4 instants whose
\* frequency, not the ceiling, sets the bound.
C32_Witness ==
    /\ jitter_delay # <<>>
    /\ Len(past_jitters) >= MinSamples
    /\ DelayBound > 0
    /\ DelayBound < max_jitter
    /\ jitter_delay[1] < DelayBound

\* C33: the devices of a request are served in the order of its device list.
\* Whenever anything has been done for a device (a call of a push function, a
\* payload, a send, a sleep, a counter), every device before it in the list is
\* Succeeded or Rejected; so the senders get the messages of device i, retries
\* included, before any message of device i+1.
C33_DevicesServedInListOrder ==
    \A r \in Requests : \A j \in DOMAIN dev[r] :
        dev[r][j] # FreshDev =>
            \A i \in 1..(j - 1) : dev[r][i].state \in Terminal

\* Two devices of one request, both sent through the FCM sender: the first
\* was sent to twice (a retry) and is terminal, the second has been sent to.
C33_Witness ==
    \E r \in Requests :
        /\ Len(dev[r]) = 2
        /\ dev[r][1].fcm_sends = 2
        /\ dev[r][1].state \in Terminal
        /\ dev[r][2].fcm_sends >= 1

\* C34: the data block names the target device only.  Every payload with a
\* data block, built for the device at any place of any device list, has in
\* the block a device list of exactly one entry, the device the payload is
\* for, whatever other devices the request names.
C34_DataBlockNamesTargetOnly ==
    \A r \in Requests : \A i \in DOMAIN dev[r] : \A k \in DOMAIN dev[r][i].payloads :
        LET p == dev[r][i].payloads[k]
        IN  p.data # <<>> =>
                /\ Len(p.data[1].devices) = 1
                /\ p.data[1].devices[1] = devices[r][i]

\* A request names two data-message devices with different push keys and
\* kinds; a data block has been built for the second of them.
C34_Witness ==
    \E r \in Requests :
        /\ Len(devices[r]) = 2
        /\ devices[r][1].pushkey # devices[r][2].pushkey
        /\ devices[r][1].data_message = "ios"
        /\ devices[r][2].data_message = "android"
        /\ dev[r][1].payloads # <<>>
        /\ dev[r][2].payloads # <<>>
        /\ dev[r][2].payloads[1].data # <<>>

\* C35: the lock of the FCM sender is held for a send call only.  A request
\* holds it only while its send call is in progress, never while it sleeps
\* between two attempts; and a request waiting for the lock while no send of
\* the FCM sender is in progress anywhere finds the lock free, whatever the
\* other requests are doing.
C35_LockHeldForOneSendOnly ==
    /\ \A r \in Requests :
           fcm_lock = r => pc[r] = "send" /\ ~UsesApns(devices[r][idx[r]])
    /\ \A q \in Requests :
           (/\ pc[q] = "lock"
            /\ \A r \in Requests :
                   pc[r] = "send" => UsesApns(devices[r][idx[r]])) => fcm_lock = 0

\* A request sleeps between two attempts of a device sent through the FCM
\* sender while the other request holds the lock, its send in progress.
C35_Witness ==
    \E r, q \in Requests :
        /\ r # q
        /\ pc[r] = "sleep"
        /\ dev[r][idx[r]].fcm_sends >= 1
        /\ pc[q] = "send"
        /\ fcm_lock = q

\* A request that was abandoned: a send call of it panicked, or its future
\* was dropped with the connection.
Abandoned(r) == pc[r] = "done" /\ obs[r].faulted # 0

\* C36: an abandoned request leaves the lock of the FCM sender free and the
\* other requests alone.  No abandoned request holds the lock; a request that
\* waits for the lock finds it free or held by a request whose send call is in
\* progress; and in every request that is answered each device is Succeeded
\* after one successful send that followed only failed ones of its own, or
\* Rejected after failed sends of its own up to the attempt limit, the
\* response naming the Rejected ones, whatever was abandoned meanwhile.
C36_AbandonedRequestFreesLock ==
    /\ \A r \in Requests : Abandoned(r) => fcm_lock # r
    /\ \A q \in Requests : pc[q] = "lock" =>
           \/ fcm_lock = 0
           \/ \E r \in Requests \ {q} : fcm_lock = r /\ pc[r] = "send"
    /\ \A q \in Requests : Answered(q) =>
           /\ response[q].rejected = KeysOfRejected(devices[q], dev[q], 1)
           /\ \A i \in DOMAIN dev[q] :
                  \/ /\ dev[q][i].state = "Succeeded"
                     /\ Sends(dev[q][i]) = dev[q][i].fails + 1
                     /\ dev[q][i].fails < AttemptLimit
                  \/ /\ dev[q][i].state = "Rejected"
                     /\ Sends(dev[q][i]) = dev[q][i].fails
                     /\ dev[q][i].fails = AttemptLimit

\* A request was dropped during a send call of the FCM sender, so while it
\* held the lock; the other request, which had failed once before, holds the
\* lock now and sends.
C36_Witness ==
    \E r, q \in Requests :
        /\ r # q
        /\ Abandoned(r)
        /\ response[r].kind = "none"
        /\ dev[r][obs[r].faulted].fcm_sends > dev[r][obs[r].faulted].fails
        /\ pc[q] = "send"
        /\ fcm_lock = q
        /\ dev[q][idx[q]].fails >= 1

\* C37: every request is answered.  If the sender calls return and the sleeps
\* end, a request that has been received leads to its response, with every
\* device of it Succeeded or Rejected, however the requests in flight take
\* turns at the lock of the FCM sender.
C37_EveryRequestAnswered ==
    \A r \in Requests :
        (pc[r] # "idle") ~>
            (Answered(r) /\ \A i \in DOMAIN dev[r] : dev[r][i].state \in Terminal)

\* A request has been answered after its device got through the FCM sender at
\* the second attempt, while the other request, which failed once as well,
\* waits for the lock.
C37_Witness ==
    \E r, q \in Requests :
        /\ r # q
        /\ Answered(r)
        /\ Len(dev[r]) >= 1
        /\ dev[r][1].state = "Succeeded"
        /\ dev[r][1].fcm_sends = 2
        /\ pc[q] = "lock"
        /\ attempt[q] >= 1

\* C38: a retry repeats the first attempt.  All payloads built for a device in
\* a request are equal, they are all for one sender, and the send calls made
\* for the device all went to that sender: neither the provider nor the shape
\* of the payload changes between the first attempt and a retry.
C38_RetriesRepeatFirstAttempt ==
    \A r \in Requests : \A i \in DOMAIN dev[r] :
        LET dv == dev[r][i] IN
        /\ \A k, l \in DOMAIN dv.payloads : dv.payloads[k] = dv.payloads[l]
        /\ dv.fcm_sends = 0 \/ dv.apns_sends = 0
        /\ \A k \in DOMAIN dv.payloads :
               /\ dv.fcm_sends > 0 => dv.payloads[k].sender = "fcm"
               /\ dv.apns_sends > 0 => dv.payloads[k].sender = "apns"

\* A device of declared kind ios was sent to twice through the FCM sender, a
\* payload with data block and visible block built for each attempt.
C38_Witness ==
    \E r \in Requests : \E i \in DOMAIN dev[r] :
        /\ devices[r][i].data_message = "ios"
        /\ dev[r][i].fcm_sends = 2
        /\ Len(dev[r][i].payloads) = 2
        /\ dev[r][i].payloads[2].data # <<>>
        /\ dev[r][i].payloads[2].notification # <<>>

\* C39: the device counter grows by the length of the device list, once, when
\* matrix_push returns.  While a request is being handled the counter is what
\* it was when the request arrived; when it is answered by the handler the
\* counter has grown by the number of devices named, Rejected ones and ones
\* with a foreign app id included; a request refused with 400 or ended by a
\* panic adds nothing.  So with no request in flight and no panic so far, the
\* successful and failed pushes of all device types add up to the counter.
C39_DevicesCountedOncePerRequest ==
    /\ \A r \in Requests :
           /\ pc[r] \in {"loop", "lock", "send", "sleep", "finish"} =>
                  devices_total = obs[r].devices_total
           /\ Answered(r) =>
                  /\ devices_total = obs[r].devices_total + Len(devices[r])
                  /\ \A i \in DOMAIN dev[r] : dev[r][i].state \in Terminal
           /\ (pc[r] = "done" /\ ~Answered(r)) =>
                  devices_total = obs[r].devices_total
    /\ ((\A r \in Requests : pc[r] \in {"idle", "done"}) /\ caught_panics = 0) =>
           SumOver(successful_pushes, DeviceTypes) + SumOver(failed_pushes, DeviceTypes)
               = devices_total

\* The second request served is answered: it named a device with a foreign
\* app id, which was Rejected, and the counter stands at the devices of both
\* requests, above the number of successful pushes.
C39_Witness ==
    \E r \in Requests :
        /\ Answered(r)
        /\ served = 2
        /\ obs[r].devices_total >= 1
        /\ \E i \in DOMAIN dev[r] :
               WrongAppId(devices[r][i]) /\ dev[r][i].state = "Rejected"
        /\ devices_total = obs[r].devices_total + Len(devices[r])
        /\ devices_total > SumOver(successful_pushes, DeviceTypes)

====
